---- MODULE Spec2Model ----
(***************************************************************************)
(* A model of the GraphQL user resolver (backend/src/resolvers/user.ts):   *)
(* the User table, the per-client express sessions, the redis store of     *)
(* password-reset tokens, and one action per resolver.  A resolver that    *)
(* reads and then writes shared data across several awaits                 *)
(* (changePassword, changeInfo) is split at those awaits, so that requests *)
(* of different clients interleave there; the other resolvers touch shared *)
(* data in one database or redis call and are one action each.             *)
(***************************************************************************)
EXTENDS Integers, Sequences, FiniteSets, TLC

VARIABLES
    users,      \* the User table: id -> row
    nextId,     \* the next value of the table's id sequence
    session,    \* client -> req.session.userId (0: undefined)
    redis,      \* reset token -> [userId, expireAt] (live keys only)
    nextToken,  \* the next uuid v4() hands out
    sent,       \* number of reset links sendEmail has mailed
    now,        \* the clock, in seconds
    req,        \* client -> the resolver call in flight, at its await
    issued,     \* token -> [userId, at]: every token forgotPassword has issued
    resets,     \* token -> number of times changePassword changed a password with it
    last        \* the response of the call that completed last

vars == <<users, nextId, session, redis, nextToken, sent, now, req, issued, resets, last>>

------------------------------------------------------------------------------
\* Bounds of the model.
MaxUsers == 2
MaxTokens == 1

Clients == {"c1", "c2"}
Ids == 1..MaxUsers
Tokens == 1..MaxTokens

\* Strings are sequences of characters.
U1 == <<"b", "o", "b">>
U2 == <<"a", "m", "y">>
E1 == <<"b", "@", "x">>
E2 == <<"a", "@", "x">>
P1 == <<"a", "b", "c">>
P2 == <<"x", "y", "z">>
ShortPw == <<"a", "b">>
Empty == <<>>
Url1 == <<"u">>

Usernames == {U1, U2}
Emails == {E1, E2}
GoodPasswords == {P1, P2}

Includes(s, ch) == \E i \in 1..Len(s) : s[i] = ch

\* argon2: the stored digest verifies exactly the password it was made from.
\* A password column is a digest or, were it ever stored so, the plain text.
Plain(p) == [kind |-> "plain", text |-> p]
argon2_hash(p) == [kind |-> "argon2", text |-> p]
argon2_verify(h, p) == h.kind = "argon2" /\ h.text = p

\* seconds
Day == 60 * 60 * 24
\* the expiry forgotPassword passes to redis.set(..., "EX", seconds)
ForgotPasswordEX == 1000 * 60 * 60 * 24 * 3
\* the instants the clock takes
Times == {0, 4 * Day, ForgotPasswordEX}

------------------------------------------------------------------------------
\* Responses.
FieldError(f, m) == [field |-> f, message |-> m]
\* A response names its user by id: NullUser when the field is null, NoId for
\* a User object whose id is undefined.
NullUser == -1
NoId == 0
UserObj(id) == IF id \in DOMAIN users THEN id ELSE NullUser

Response(c, op, errs, u, val, thrown) ==
    [client |-> c, op |-> op, errors |-> errs, user |-> u, value |-> val,
     thrown |-> thrown]
ErrorResponse(c, op, f, m) ==
    Response(c, op, <<FieldError(f, m)>>, NullUser, FALSE, FALSE)
UserResponse(c, op, u) == Response(c, op, <<>>, u, FALSE, FALSE)
BoolResponse(c, op, b) == Response(c, op, <<>>, NullUser, b, FALSE)
Thrown(c, op) == Response(c, op, <<>>, NullUser, FALSE, TRUE)

Idle == [op |-> "idle", pc |-> "idle", token |-> 0, pw |-> Empty, uid |-> 0,
         row |-> [username |-> Empty, email |-> Empty, password |-> Plain(Empty)]]

------------------------------------------------------------------------------
\* The database.
FindByUsername(u) ==
    LET hit == {i \in DOMAIN users : users[i].username = u}
    IN  IF hit = {} THEN 0 ELSE CHOOSE i \in hit : \A j \in hit : i <= j
FindByEmail(e) ==
    LET hit == {i \in DOMAIN users : users[i].email = e}
    IN  IF hit = {} THEN 0 ELSE CHOOSE i \in hit : \A j \in hit : i <= j

\* (a variant: only the username column is unique)
UniqueViolationUsernameOnly(id, username, email) ==
    \E j \in DOMAIN users \ {id} : users[j].username = username

\* the unique constraints of the User entity: error code 23505
UniqueViolation(id, username, email) ==
    \E j \in DOMAIN users \ {id} :
        users[j].username = username \/ users[j].email = email

isAuth(c) == session[c] # 0

Init ==
    /\ users = <<>>
    /\ nextId = 1
    /\ session = [c \in Clients |-> 0]
    /\ redis = <<>>
    /\ nextToken = 1
    /\ sent = 0
    /\ now = 0
    /\ req = [c \in Clients |-> Idle]
    /\ issued = <<>>
    /\ resets = [t \in Tokens |-> 0]
    /\ last = BoolResponse("c1", "init", FALSE)

------------------------------------------------------------------------------
\* Input validation (utils/validateRegister, utils/valdiateChangeInfo).
validateRegister(options) ==
    IF ~Includes(options.email, "@")
    THEN <<FieldError("email", "Invalid Email")>>
    ELSE IF Len(options.username) <= 2
    THEN <<FieldError("username", "Length Must be greater than 2")>>
    ELSE IF Includes(options.username, "@")
    THEN <<FieldError("username", "Cannot include @")>>
    ELSE IF Len(options.password) <= 2
    THEN <<FieldError("password", "Length Must be greater than 2")>>
    ELSE IF options.password # options.confirmPassword
    THEN <<FieldError("confirmPassword", "Passwords do not match")>>
    ELSE <<>>

validateChangeInfo(input) ==
    IF input.email # Empty /\ ~Includes(input.email, "@")
    THEN <<FieldError("email", "Invalid Email")>>
    ELSE IF input.username # Empty /\ Len(input.username) <= 2
    THEN <<FieldError("username", "Length Must be greater than 2")>>
    ELSE IF input.username # Empty /\ Includes(input.username, "@")
    THEN <<FieldError("username", "Cannot include @")>>
    ELSE IF input.password # Empty /\ Len(input.password) <= 2
    THEN <<FieldError("password", "Length Must be greater than 2")>>
    ELSE IF input.password # Empty /\ input.password # input.confirmPassword
    THEN <<FieldError("confirmPassword", "Passwords do not match")>>
    ELSE <<>>

\* The inputs tried: the well-formed ones, and one ill-formed one per rule.
RegisterOptions(u, e, p, q) ==
    [username |-> u, email |-> e, password |-> p, confirmPassword |-> q]
RegisterInputs ==
    {RegisterOptions(u, e, P1, P1) : u \in Usernames, e \in Emails}
    \cup {RegisterOptions(U1, U1, P1, P1), RegisterOptions(E1, E1, P1, P1),
          RegisterOptions(U1, E1, ShortPw, ShortPw), RegisterOptions(U1, E1, P1, P2)}

ChangeInfoInput(u, e, p, q) ==
    [username |-> u, email |-> e, password |-> p, confirmPassword |-> q]
ChangeInfoInputs ==
    {ChangeInfoInput(u, Empty, Empty, Empty) : u \in Usernames \cup {Empty}}
    \cup {ChangeInfoInput(Empty, e, Empty, Empty) : e \in Emails}
    \cup {ChangeInfoInput(Empty, Empty, P2, P2), ChangeInfoInput(Empty, Empty, P2, P1),
          ChangeInfoInput(Empty, Empty, ShortPw, ShortPw),
          ChangeInfoInput(E1, Empty, Empty, Empty)}

LoginOptions(u, p) == [usernameOrEmail |-> u, password |-> p]
LoginInputs ==
    {LoginOptions(u, p) : u \in {U1, U2, E1}, p \in GoodPasswords}
    \cup {LoginOptions(Empty, P1), LoginOptions(U1, Empty)}

------------------------------------------------------------------------------
\* register
\* (a variant: the submitted password is stored as it came)
RegisterRowPlain(options) ==
    [username |-> options.username, email |-> options.email,
     password |-> Plain(options.password), imageUrl |-> Empty]

RegisterRow(options) ==
    [username |-> options.username, email |-> options.email,
     password |-> argon2_hash(options.password), imageUrl |-> Empty]

\* what a write of (username, email) to row id can do: throw 23505 when it
\* breaks a unique constraint, else succeed or throw some other error
SaveOutcomes(id, username, email) ==
    IF UniqueViolation(id, username, email) THEN {"23505"} ELSE {"ok", "error"}

\* (a variant: the catch branch does not return, and the resolver goes on)
RegisterDuplicateFallsThrough(c) ==
    /\ session' = [session EXCEPT ![c] = NoId]
    /\ last' = UserResponse(c, "register", NoId)
    /\ UNCHANGED <<users, nextId>>

\* the catch branch for err.code === "23505"
RegisterDuplicate(c) ==
    /\ last' = ErrorResponse(c, "register", "username", "School Already Exists")
    /\ UNCHANGED <<users, nextId, session>>

Register(c, options, outcome) ==
    /\ req[c] = Idle
    /\ outcome \in SaveOutcomes(0, options.username, options.email)
    /\ IF validateRegister(options) # <<>>
       THEN /\ last' = Response(c, "register", validateRegister(options),
                                NullUser, FALSE, FALSE)
            /\ UNCHANGED <<users, nextId, session>>
       ELSE IF outcome = "23505"
       THEN RegisterDuplicate(c)
       ELSE IF outcome = "error"
       THEN \* the error is swallowed; user.id is undefined
            /\ session' = [session EXCEPT ![c] = NoId]
            /\ last' = UserResponse(c, "register", NoId)
            /\ UNCHANGED <<users, nextId>>
       ELSE /\ nextId <= MaxUsers
            /\ users' = [i \in DOMAIN users \cup {nextId} |->
                            IF i = nextId THEN RegisterRow(options) ELSE users[i]]
            /\ nextId' = nextId + 1
            /\ session' = [session EXCEPT ![c] = nextId]
            /\ last' = UserResponse(c, "register", nextId)
    /\ UNCHANGED <<redis, nextToken, sent, now, req, issued, resets>>

------------------------------------------------------------------------------
\* login
\* (a variant: the lookup is by username whatever the input)
LoginLookupByUsername(options) == FindByUsername(options.usernameOrEmail)

LoginLookup(options) ==
    IF Includes(options.usernameOrEmail, "@")
    THEN FindByEmail(options.usernameOrEmail)
    ELSE FindByUsername(options.usernameOrEmail)

LoginErrors(options) ==
    IF options.usernameOrEmail = Empty
    THEN <<FieldError("usernameOrEmail", "No username or email supplied")>>
    ELSE IF options.password = Empty
    THEN <<FieldError("password", "No password supplied")>>
    ELSE IF LoginLookup(options) = 0
    THEN <<FieldError("usernameOrEmail", "That School does not exist")>>
    ELSE IF ~argon2_verify(users[LoginLookup(options)].password, options.password)
    THEN <<FieldError("password", "Invalid password")>>
    ELSE <<>>

Login(c, options) ==
    /\ req[c] = Idle
    /\ IF LoginErrors(options) # <<>>
       THEN /\ last' = Response(c, "login", LoginErrors(options), NullUser, FALSE, FALSE)
            /\ UNCHANGED session
       ELSE /\ session' = [session EXCEPT ![c] = LoginLookup(options)]
            /\ last' = UserResponse(c, "login", LoginLookup(options))
    /\ UNCHANGED <<users, nextId, redis, nextToken, sent, now, req, issued, resets>>

\* logout: the session is destroyed whether or not the store reports an error
Logout(c, err) ==
    /\ req[c] = Idle
    /\ session' = [session EXCEPT ![c] = NoId]
    /\ last' = BoolResponse(c, "logout", ~err)
    /\ UNCHANGED <<users, nextId, redis, nextToken, sent, now, req, issued, resets>>

\* me
MeResult(c) == IF session[c] = NoId THEN NullUser ELSE UserObj(session[c])

Me(c) ==
    /\ req[c] = Idle
    /\ last' = UserResponse(c, "me", MeResult(c))
    /\ UNCHANGED <<users, nextId, session, redis, nextToken, sent, now, req, issued,
                   resets>>

\* deleteUser
\* (a variant: the row is deleted and the session is left as it was)
DeleteUserKeepsSession(c, err) ==
    /\ req[c] = Idle
    /\ IF ~isAuth(c)
       THEN /\ last' = Thrown(c, "deleteUser")
            /\ UNCHANGED users
       ELSE /\ users' = [i \in DOMAIN users \ {session[c]} |-> users[i]]
            /\ last' = BoolResponse(c, "deleteUser", ~err)
    /\ UNCHANGED <<nextId, session, redis, nextToken, sent, now, req, issued, resets>>

DeleteUser(c, err) ==
    /\ req[c] = Idle
    /\ IF ~isAuth(c)
       THEN /\ last' = Thrown(c, "deleteUser")
            /\ UNCHANGED <<users, session>>
       ELSE /\ users' = [i \in DOMAIN users \ {session[c]} |-> users[i]]
            /\ session' = [session EXCEPT ![c] = NoId]
            /\ last' = BoolResponse(c, "deleteUser", ~err)
    /\ UNCHANGED <<nextId, redis, nextToken, sent, now, req, issued, resets>>

\* uploadImg: no isAuth; with userId undefined the criteria {id: undefined}
\* match no row or every row, as the ORM build decides
UploadTargets(c) ==
    IF session[c] # NoId THEN {DOMAIN users \cap {session[c]}}
    ELSE {{}, DOMAIN users}

UploadImg(c, imageUrl, targets) ==
    /\ req[c] = Idle
    /\ targets \in UploadTargets(c)
    /\ users' = [i \in DOMAIN users |->
                    IF i \in targets THEN [users[i] EXCEPT !.imageUrl = imageUrl]
                    ELSE users[i]]
    /\ last' = UserResponse(c, "uploadImg",
                  IF targets = {} THEN NullUser
                  ELSE CHOOSE i \in targets : \A j \in targets : i <= j)
    /\ UNCHANGED <<nextId, session, redis, nextToken, sent, now, req, issued, resets>>

------------------------------------------------------------------------------
\* forgotPassword
\* (a variant: the result tells whether a user has the address)
ForgotPasswordResultTells(email) == FindByEmail(email) # 0

\* the value returned, with or without a user for the address
ForgotPasswordResult(email) == TRUE

ForgotPassword(c, email) ==
    /\ req[c] = Idle
    /\ IF FindByEmail(email) = 0
       THEN UNCHANGED <<redis, nextToken, sent, issued>>
       ELSE /\ nextToken <= MaxTokens
            /\ redis' = [t \in DOMAIN redis \cup {nextToken} |->
                            IF t = nextToken
                            THEN [userId |-> FindByEmail(email),
                                  expireAt |-> now + ForgotPasswordEX]
                            ELSE redis[t]]
            /\ issued' = [t \in DOMAIN issued \cup {nextToken} |->
                            IF t = nextToken
                            THEN [userId |-> FindByEmail(email), at |-> now]
                            ELSE issued[t]]
            /\ sent' = sent + 1
            /\ nextToken' = nextToken + 1
    /\ last' = BoolResponse(c, "forgotPassword", ForgotPasswordResult(email))
    /\ UNCHANGED <<users, nextId, session, now, req, resets>>

\* redis.get: the value of a key that has not expired, or null (0)
redis_get(token) ==
    IF token \in DOMAIN redis /\ now < redis[token].expireAt
    THEN redis[token].userId ELSE 0

\* redis.del
redis_del(token) == [k \in DOMAIN redis \ {token} |-> redis[k]]

\* time passes; redis drops the keys whose expiry has come
Tick(t) ==
    /\ t \in Times
    /\ t > now
    /\ now' = t
    /\ redis' = [k \in {k \in DOMAIN redis : t < redis[k].expireAt} |-> redis[k]]
    /\ UNCHANGED <<users, nextId, session, nextToken, sent, req, issued, resets, last>>

------------------------------------------------------------------------------
\* changePassword
changePasswordValidate(newPassword, confirmNewPassword) ==
    IF Len(newPassword) <= 2
    THEN <<FieldError("newPassword", "Length Must be greater than 2")>>
    ELSE IF newPassword # confirmNewPassword
    THEN <<FieldError("confirmNewPassword", "Passwords do not match")>>
    ELSE <<>>

\* (a variant: the update carries no criteria and writes every row)
ChangePasswordUsersAll(userIdNumber, newPassword) ==
    [i \in DOMAIN users |-> [users[i] EXCEPT !.password = argon2_hash(newPassword)]]

\* User.update({ id: userIdNumber }, { password: await argon2.hash(newPassword) })
ChangePasswordUsers(userIdNumber, newPassword) ==
    [i \in DOMAIN users |->
        IF i = userIdNumber
        THEN [users[i] EXCEPT !.password = argon2_hash(newPassword)]
        ELSE users[i]]

\* the errors changePassword returns when it runs to completion
ChangePasswordErrors(token, newPassword, confirmNewPassword) ==
    IF changePasswordValidate(newPassword, confirmNewPassword) # <<>>
    THEN changePasswordValidate(newPassword, confirmNewPassword)
    ELSE IF redis_get(token) = 0
    THEN <<FieldError("token", "Invalid Token")>>
    ELSE IF redis_get(token) \notin DOMAIN users
    THEN <<FieldError("token", "User no longer exists")>>
    ELSE <<>>

\* the whole resolver in one step
ChangePassword(c, token, newPassword, confirmNewPassword) ==
    /\ req[c] = Idle
    /\ IF ChangePasswordErrors(token, newPassword, confirmNewPassword) # <<>>
       THEN /\ last' = Response(c, "changePassword",
                          ChangePasswordErrors(token, newPassword, confirmNewPassword),
                          NullUser, FALSE, FALSE)
            /\ UNCHANGED <<users, redis, session, resets>>
       ELSE /\ users' = ChangePasswordUsers(redis_get(token), newPassword)
            /\ resets' = [resets EXCEPT ![token] = @ + 1]
            /\ redis' = redis_del(token)
            /\ session' = [session EXCEPT ![c] = redis_get(token)]
            /\ last' = UserResponse(c, "changePassword", redis_get(token))
    /\ UNCHANGED <<nextId, nextToken, sent, now, req, issued>>

\* the resolver split at its awaits: redis.get, User.findOne, User.update,
\* redis.del (with the session write and the return)
ChangePasswordGet(c, token, newPassword, confirmNewPassword) ==
    /\ req[c] = Idle
    /\ IF changePasswordValidate(newPassword, confirmNewPassword) # <<>>
       THEN /\ last' = Response(c, "changePassword",
                          changePasswordValidate(newPassword, confirmNewPassword),
                          NullUser, FALSE, FALSE)
            /\ UNCHANGED req
       ELSE IF redis_get(token) = 0
       THEN /\ last' = ErrorResponse(c, "changePassword", "token", "Invalid Token")
            /\ UNCHANGED req
       ELSE /\ req' = [req EXCEPT ![c] =
                        [Idle EXCEPT !.op = "changePassword", !.pc = "findOne",
                                     !.token = token, !.pw = newPassword,
                                     !.uid = redis_get(token)]]
            /\ UNCHANGED last
    /\ UNCHANGED <<users, nextId, session, redis, nextToken, sent, now, issued, resets>>

ChangePasswordFind(c) ==
    /\ req[c].op = "changePassword" /\ req[c].pc = "findOne"
    /\ IF req[c].uid \notin DOMAIN users
       THEN /\ last' = ErrorResponse(c, "changePassword", "token", "User no longer exists")
            /\ req' = [req EXCEPT ![c] = Idle]
       ELSE /\ req' = [req EXCEPT ![c].pc = "update"]
            /\ UNCHANGED last
    /\ UNCHANGED <<users, nextId, session, redis, nextToken, sent, now, issued, resets>>

ChangePasswordUpdate(c) ==
    /\ req[c].op = "changePassword" /\ req[c].pc = "update"
    /\ users' = ChangePasswordUsers(req[c].uid, req[c].pw)
    /\ resets' = IF req[c].uid \in DOMAIN users
                 THEN [resets EXCEPT ![req[c].token] = @ + 1] ELSE resets
    /\ req' = [req EXCEPT ![c].pc = "del"]
    /\ UNCHANGED <<nextId, session, redis, nextToken, sent, now, issued, last>>

ChangePasswordDel(c) ==
    /\ req[c].op = "changePassword" /\ req[c].pc = "del"
    /\ redis' = redis_del(req[c].token)
    /\ session' = [session EXCEPT ![c] = req[c].uid]
    /\ last' = UserResponse(c, "changePassword", req[c].uid)
    /\ req' = [req EXCEPT ![c] = Idle]
    /\ UNCHANGED <<users, nextId, nextToken, sent, now, issued, resets>>

------------------------------------------------------------------------------
\* changeInfo.  The values written are those of the input where given, else
\* those of the row as User.findOne read it.
ChangeInfoValues(input, user) ==
    [password |-> IF input.password # Empty THEN argon2_hash(input.password)
                  ELSE user.password,
     username |-> IF input.username # Empty THEN input.username ELSE user.username,
     email |-> IF input.email # Empty THEN input.email ELSE user.email]

\* User.update({ id: userId }, values)
ChangeInfoUsers(userId, values) ==
    [i \in DOMAIN users |->
        IF i = userId
        THEN [users[i] EXCEPT !.password = values.password,
                              !.username = values.username,
                              !.email = values.email]
        ELSE users[i]]

\* the catch branch for err.code === "23505"
ChangeInfoDuplicate(c) ==
    /\ last' = ErrorResponse(c, "changeInfo", "username", "School Already Exists")
    /\ UNCHANGED users

\* the whole resolver in one step
ChangeInfo(c, input, outcome) ==
    /\ req[c] = Idle
    /\ IF ~isAuth(c)
       THEN /\ outcome = "ok"
            /\ last' = Thrown(c, "changeInfo")
            /\ UNCHANGED users
       ELSE IF validateChangeInfo(input) # <<>>
       THEN /\ outcome = "ok"
            /\ last' = Response(c, "changeInfo", validateChangeInfo(input),
                                NullUser, FALSE, FALSE)
            /\ UNCHANGED users
       ELSE IF session[c] \notin DOMAIN users
       THEN \* no row matches the criteria
            /\ outcome = "ok"
            /\ last' = UserResponse(c, "changeInfo", NullUser)
            /\ UNCHANGED users
       ELSE LET v == ChangeInfoValues(input, users[session[c]])
            IN  /\ outcome \in SaveOutcomes(session[c], v.username, v.email)
                /\ IF outcome = "23505"
                   THEN ChangeInfoDuplicate(c)
                   ELSE IF outcome = "error"
                   THEN /\ last' = UserResponse(c, "changeInfo", session[c])
                        /\ UNCHANGED users
                   ELSE /\ users' = ChangeInfoUsers(session[c], v)
                        /\ last' = UserResponse(c, "changeInfo", session[c])
    /\ UNCHANGED <<nextId, session, redis, nextToken, sent, now, req, issued, resets>>

\* the resolver split at the await between User.findOne and User.update
ChangeInfoFind(c, input) ==
    /\ req[c] = Idle
    /\ IF ~isAuth(c)
       THEN /\ last' = Thrown(c, "changeInfo")
            /\ UNCHANGED req
       ELSE IF validateChangeInfo(input) # <<>>
       THEN /\ last' = Response(c, "changeInfo", validateChangeInfo(input),
                                NullUser, FALSE, FALSE)
            /\ UNCHANGED req
       ELSE /\ req' = [req EXCEPT ![c] =
                        [Idle EXCEPT !.op = "changeInfo", !.pc = "update",
                                     !.uid = session[c],
                                     !.row = IF session[c] \in DOMAIN users
                                             THEN ChangeInfoValues(input, users[session[c]])
                                             ELSE Idle.row]]
            /\ UNCHANGED last
    /\ UNCHANGED <<users, nextId, session, redis, nextToken, sent, now, issued, resets>>

ChangeInfoUpdate(c, outcome) ==
    /\ req[c].op = "changeInfo" /\ req[c].pc = "update"
    /\ IF req[c].uid \notin DOMAIN users
       THEN \* no row matches the criteria
            /\ outcome = "ok"
            /\ last' = UserResponse(c, "changeInfo", NullUser)
            /\ UNCHANGED users
       ELSE /\ outcome \in SaveOutcomes(req[c].uid, req[c].row.username, req[c].row.email)
            /\ IF outcome = "23505"
               THEN ChangeInfoDuplicate(c)
               ELSE IF outcome = "error"
               THEN /\ last' = UserResponse(c, "changeInfo", req[c].uid)
                    /\ UNCHANGED users
               ELSE /\ users' = ChangeInfoUsers(req[c].uid, req[c].row)
                    /\ last' = UserResponse(c, "changeInfo", req[c].uid)
    /\ req' = [req EXCEPT ![c] = Idle]
    /\ UNCHANGED <<nextId, session, redis, nextToken, sent, now, issued, resets>>

------------------------------------------------------------------------------
\* Spec: every resolver call runs to completion before the next one starts.
Outcomes == {"ok", "23505", "error"}
ChangePasswordInputs == {<<P1, P1>>, <<P2, P2>>, <<P2, P1>>, <<ShortPw, ShortPw>>}

Next ==
    \/ \E c \in Clients, o \in RegisterInputs, r \in Outcomes : Register(c, o, r)
    \/ \E c \in Clients, o \in LoginInputs : Login(c, o)
    \/ \E c \in Clients, e \in BOOLEAN : Logout(c, e)
    \/ \E c \in Clients : Me(c)
    \/ \E c \in Clients, e \in BOOLEAN : DeleteUser(c, e)
    \/ \E c \in Clients, e \in Emails : ForgotPassword(c, e)
    \/ \E c \in Clients, t \in 0..MaxTokens, a \in ChangePasswordInputs :
          ChangePassword(c, t, a[1], a[2])
    \/ \E c \in Clients, i \in ChangeInfoInputs, r \in Outcomes : ChangeInfo(c, i, r)

Spec == Init /\ [][Next]_vars

\* SpecClock: the password-reset resolvers with the clock running.
NextClock ==
    \/ \E c \in Clients, u \in Usernames, e \in Emails, r \in Outcomes :
          Register(c, RegisterOptions(u, e, P1, P1), r)
    \/ \E c \in Clients : DeleteUser(c, FALSE)
    \/ \E c \in Clients, e \in Emails : ForgotPassword(c, e)
    \/ \E c \in Clients, t \in 0..MaxTokens, a \in ChangePasswordInputs :
          ChangePassword(c, t, a[1], a[2])
    \/ \E t \in Times : Tick(t)

SpecClock == Init /\ [][NextClock]_vars

\* SpecAwait: the resolvers that write the User table or the token store,
\* with the requests of the two clients interleaved at the awaits.
NextAwait ==
    \/ \E c \in Clients, u \in Usernames, e \in Emails, r \in Outcomes :
          Register(c, RegisterOptions(u, e, P1, P1), r)
    \/ \E c \in Clients : DeleteUser(c, FALSE)
    \/ \E c \in Clients, ts \in SUBSET Ids : UploadImg(c, Url1, ts)
    \/ \E c \in Clients, e \in Emails : ForgotPassword(c, e)
    \/ \E c \in Clients, t \in Tokens : ChangePasswordGet(c, t, P2, P2)
    \/ \E c \in Clients : ChangePasswordFind(c)
    \/ \E c \in Clients : ChangePasswordUpdate(c)
    \/ \E c \in Clients : ChangePasswordDel(c)
    \/ \E c \in Clients, u \in Usernames :
          ChangeInfoFind(c, ChangeInfoInput(u, Empty, Empty, Empty))
    \/ \E c \in Clients, e \in Emails :
          ChangeInfoFind(c, ChangeInfoInput(Empty, e, Empty, Empty))
    \/ \E c \in Clients, r \in Outcomes : ChangeInfoUpdate(c, r)

SpecAwait == Init /\ [][NextAwait]_vars

------------------------------------------------------------------------------
\* Properties.

DuplicateError == <<FieldError("username", "School Already Exists")>>

\* C1: no two distinct stored users have the same username, and no two have
\* the same email, whatever the interleaving of the resolvers that write the
\* User table.
UniqueUsernameAndEmail ==
    \A i, j \in DOMAIN users :
        i # j => /\ users[i].username # users[j].username
                 /\ users[i].email # users[j].email

\* two users are stored and a changeInfo that would have made them collide
\* has just been refused
UniqueWitness ==
    /\ Cardinality(DOMAIN users) = 2
    /\ last.op = "changeInfo"
    /\ last.errors = DuplicateError

\* C2: the password column of every stored user is the argon2 digest of a
\* password, never a plain text.
PasswordsAreArgon2Hashes ==
    \A i \in DOMAIN users :
        users[i].password \in {argon2_hash(p) : p \in GoodPasswords}

\* a changeInfo with a password has just replaced the digest written by register
HashedWitness ==
    /\ last.op = "changeInfo"
    /\ last.errors = <<>>
    /\ last.user \in DOMAIN users
    /\ users[last.user].password = argon2_hash(P2)
    /\ resets = [t \in Tokens |-> 0]

\* The step is the return of a call of resolver op by client c.  Every
\* resolver action implies it of its own steps, so putting it in front of a
\* formula about the steps of that action leaves the formula's meaning as it
\* is.
Returns(c, op) == last'.client = c /\ last'.op = op

\* C3: a reset token changes a password at most once, also when two
\* changePassword requests carrying it run concurrently.
TokenSingleUse == \A t \in Tokens : resets[t] <= 1

\* C4: more than 3 days after forgotPassword issued a token, redis.get finds
\* no entry for it, so changePassword answers "Invalid Token".
TokenExpiresAfterThreeDays ==
    \A t \in DOMAIN issued : now > issued[t].at + 3 * Day => redis_get(t) = 0

\* C5: a login whose username (or email, when the input contains "@") is that
\* of a stored user and whose password is the one that user's digest was made
\* from returns that user without errors and sets the caller's session userId
\* to the user's id; a login that returns errors leaves the session as it was.
LoginMatches(o, id) ==
    /\ IF Includes(o.usernameOrEmail, "@")
       THEN users[id].email = o.usernameOrEmail
       ELSE users[id].username = o.usernameOrEmail
    /\ users[id].password = argon2_hash(o.password)

LoginSetsSession ==
    [][\A c \in Clients : Returns(c, "login") =>
         \A o \in LoginInputs :
            Login(c, o) =>
              /\ \A id \in DOMAIN users :
                    LoginMatches(o, id) =>
                      /\ last' = UserResponse(c, "login", id)
                      /\ session'[c] = id
              /\ last'.errors # <<>> => session' = session]_vars

\* a user whose password was changed after registration has just logged in
LoginWitness ==
    /\ last.op = "login"
    /\ last.errors = <<>>
    /\ last.user \in DOMAIN users
    /\ session[last.client] = last.user
    /\ users[last.user].password = argon2_hash(P2)

\* C6: a login naming no user and a login naming a user with a wrong password
\* get the same errors (same field, same message).
LoginFailuresIndistinguishable ==
    \A o1, o2 \in LoginInputs :
        ( /\ o1.usernameOrEmail # Empty /\ o1.password # Empty
          /\ o2.usernameOrEmail # Empty /\ o2.password # Empty
          /\ \A i \in DOMAIN users :
                /\ users[i].username # o1.usernameOrEmail
                /\ users[i].email # o1.usernameOrEmail
          /\ \E i \in DOMAIN users :
                /\ \/ users[i].username = o2.usernameOrEmail
                   \/ users[i].email = o2.usernameOrEmail
                /\ users[i].password # argon2_hash(o2.password) )
        => LoginErrors(o1) = LoginErrors(o2)

\* C7: a register or changeInfo whose write collides with another user's
\* username or email returns the "already exists" error and no user, throws
\* nothing, and leaves every row and every session as they were.
RegisterCollides(o) ==
    \E j \in DOMAIN users :
        users[j].username = o.username \/ users[j].email = o.email

ChangeInfoCollides(c, i) ==
    \E j \in DOMAIN users \ {session[c]} :
        \/ i.username # Empty /\ users[j].username = i.username
        \/ i.email # Empty /\ users[j].email = i.email

DuplicateRejected ==
    [][/\ \A c \in Clients : Returns(c, "register") =>
            \A o \in RegisterInputs :
               ( /\ validateRegister(o) = <<>>
                 /\ RegisterCollides(o)
                 /\ \E r \in Outcomes : Register(c, o, r) )
               => /\ last' = Response(c, "register", DuplicateError, NullUser,
                                      FALSE, FALSE)
                  /\ users' = users
                  /\ session' = session
       /\ \A c \in Clients : Returns(c, "changeInfo") =>
            \A i \in ChangeInfoInputs :
               ( /\ validateChangeInfo(i) = <<>>
                 /\ session[c] \in DOMAIN users
                 /\ ChangeInfoCollides(c, i)
                 /\ \E r \in Outcomes : ChangeInfo(c, i, r) )
               => /\ last' = Response(c, "changeInfo", DuplicateError, NullUser,
                                      FALSE, FALSE)
                  /\ users' = users
                  /\ session' = session]_vars

\* a register of a taken name has just been refused while its caller was
\* logged in as somebody else
DuplicateWitness ==
    /\ last.op = "register"
    /\ last.errors = DuplicateError
    /\ session[last.client] \in DOMAIN users

\* C8: when deleteUser completes for a logged-in user, the row is gone, the
\* caller's session has no userId and me returns null, a login with the
\* deleted user's username or email fails, and changePassword with a token
\* issued for that user answers "User no longer exists" and changes nothing.
NoLongerExists == <<FieldError("token", "User no longer exists")>>

DeleteUserRemoves ==
    [][/\ \A c \in Clients : Returns(c, "deleteUser") =>
            \A e \in BOOLEAN :
               (session[c] \in DOMAIN users /\ DeleteUser(c, e))
               => /\ session[c] \notin DOMAIN users'
                  /\ session'[c] = NoId
                  /\ MeResult(c)' = NullUser
                  /\ \A o \in LoginInputs :
                        o.usernameOrEmail \in {users[session[c]].username,
                                               users[session[c]].email}
                        => LoginErrors(o)' # <<>>
                  /\ \A t \in DOMAIN redis :
                        redis[t].userId = session[c]
                        => ChangePasswordErrors(t, P1, P1)' = NoLongerExists
       /\ \A c \in Clients : Returns(c, "changePassword") =>
            \A t \in Tokens, a \in ChangePasswordInputs :
               ( /\ changePasswordValidate(a[1], a[2]) = <<>>
                 /\ t \in DOMAIN redis
                 /\ redis[t].userId \notin DOMAIN users
                 /\ ChangePassword(c, t, a[1], a[2]) )
               => /\ last' = Response(c, "changePassword", NoLongerExists,
                                      NullUser, FALSE, FALSE)
                  /\ users' = users
                  /\ session' = session]_vars

\* a token of a deleted user has just been presented
DeleteUserWitness ==
    /\ last.op = "changePassword"
    /\ last.errors = NoLongerExists
    /\ \E t \in DOMAIN redis : redis[t].userId \notin DOMAIN users

\* C9: forgotPassword returns true whether or not a user has the address;
\* with none it stores no token and sends no mail, with one it stores exactly
\* one new token, mapped to that user's id.
ForgotPasswordTellsNothing ==
    [][\A c \in Clients : Returns(c, "forgotPassword") =>
         \A e \in Emails :
            ForgotPassword(c, e) =>
              /\ last' = BoolResponse(c, "forgotPassword", TRUE)
              /\ IF \A i \in DOMAIN users : users[i].email # e
                 THEN redis' = redis /\ sent' = sent
                 ELSE \E t \in Tokens \ DOMAIN issued, i \in DOMAIN users :
                         /\ users[i].email = e
                         /\ DOMAIN redis' = DOMAIN redis \cup {t}
                         /\ redis'[t].userId = i
                         /\ \A k \in DOMAIN redis : redis'[k] = redis[k]
                         /\ sent' = sent + 1]_vars

\* forgotPassword has answered, one token is stored for a user, and one of
\* the addresses belongs to nobody
ForgotPasswordWitness ==
    /\ last.op = "forgotPassword"
    /\ last.value
    /\ sent = 1
    /\ \E t \in DOMAIN redis : redis[t].userId \in DOMAIN users
    /\ \E e \in Emails : FindByEmail(e) = 0

\* C10: a changePassword that returns errors (password of length 2 or less,
\* confirmation mismatch, unknown or expired token, token of a deleted user)
\* changes no row, no session and no token; a successful one sets the password
\* of the token's user and of nobody else, and logs the caller in as that user.
ChangePasswordAllOrNothing ==
    [][\A c \in Clients : Returns(c, "changePassword") =>
         \A t \in 0..MaxTokens, a \in ChangePasswordInputs :
            ChangePassword(c, t, a[1], a[2]) =>
              IF \/ Len(a[1]) <= 2
                 \/ a[1] # a[2]
                 \/ t \notin DOMAIN redis
                 \/ redis[t].userId \notin DOMAIN users
              THEN /\ last'.errors # <<>>
                   /\ last'.user = NullUser
                   /\ users' = users
                   /\ session' = session
                   /\ redis' = redis
              ELSE /\ last' = UserResponse(c, "changePassword", redis[t].userId)
                   /\ DOMAIN users' = DOMAIN users
                   /\ users'[redis[t].userId] =
                         [users[redis[t].userId] EXCEPT
                             !.password = argon2_hash(a[1])]
                   /\ \A i \in DOMAIN users \ {redis[t].userId} :
                         users'[i] = users[i]
                   /\ session' = [session EXCEPT ![c] = redis[t].userId]]_vars

\* a token that has expired unused has just been refused
ChangePasswordWitness ==
    /\ last.op = "changePassword"
    /\ last.errors = <<FieldError("token", "Invalid Token")>>
    /\ \E t \in DOMAIN issued :
          /\ now >= issued[t].at + ForgotPasswordEX
          /\ resets[t] = 0
          /\ issued[t].userId \in DOMAIN users

\* C11: whenever register returns a response with a user and no errors, a row
\* for that user exists with the submitted username and email, and the calling
\* session's userId is that row's id, whatever the save did (a save that fails
\* with an error other than a duplicate-key violation included).
RegisterReturnsStoredUser ==
    [][\A c \in Clients : Returns(c, "register") =>
         \A o \in RegisterInputs :
            ( /\ \E r \in Outcomes : Register(c, o, r)
              /\ last'.errors = <<>>
              /\ last'.user # NullUser )
            => /\ last'.user \in DOMAIN users'
               /\ users'[last'.user].username = o.username
               /\ users'[last'.user].email = o.email
               /\ session'[c] = last'.user]_vars

====
